---- MODULE Spec2Model ----
(***************************************************************************)
(* State-machine model of the IT invoice prediction pipeline:              *)
(*   create_it_dataset.py  - the dataset synthesizer                       *)
(*   train_it_model.py     - ITInvoicePredictor (load / train / save /     *)
(*                           predict with rule-based fallback)             *)
(*   it_invoice_app.py     - calculate_project_totals                      *)
(*                                                                         *)
(* Percentages (discount, tax_rate, estimator outputs) are integers in     *)
(* units of 1/200 percent (0.005), so that both the binary-exact eighths   *)
(* an estimator can return and the hundredths round(x, 2) produces are     *)
(* integers.  Money amounts and hours are whole numbers.                   *)
(***************************************************************************)
EXTENDS Integers, Sequences, FiniteSets, TLC

VARIABLES
  predictor,    \* the ITInvoicePredictor instance (its attributes)
  modelFile,    \* it_invoice_models.joblib on disk
  datasetFile,  \* it_invoice_dataset.csv on disk
  lastCall,     \* the most recent call on the predictor and what it returned
  prevSame,     \* the bundle of the call before it, when that was the same
                \* predict input with nothing changed in between
  services,     \* the app's list of service line items
  discountPct,  \* the discount % given to calculate_project_totals
  taxPct,       \* the tax % given to calculate_project_totals
  totals,       \* the last call of calculate_project_totals: arguments and result
  appPredictor, \* the app's SimpleInvoicePredictor instance
  datasetModuleImported  \* create_it_dataset is in the app process's sys.modules

vars == <<predictor, modelFile, datasetFile, lastCall, prevSame,
          services, discountPct, taxPct, totals, appPredictor, datasetModuleImported>>

appVars == <<appPredictor, datasetModuleImported>>

predVars == <<predictor, modelFile, datasetFile, lastCall, prevSame>>
totalsVars == <<services, discountPct, taxPct, totals>>

-----------------------------------------------------------------------------
(* Bounds of the model *)

\* number of distinct estimator behaviours an artifact file may carry
NumForeign == 1
\* most line items in the app's service list
MaxItems == 2

-----------------------------------------------------------------------------
(* Numbers *)

\* whole + eighths/8 percent, in units of 1/200 percent
Units(whole, eighths) == whole * 200 + eighths * 25

\* float('nan') and a raised exception, as estimator outcomes
NaN == 999999
Raise == 888888

\* Python's builtin min(a, b) and max(a, b): the first argument is kept unless
\* the second compares strictly smaller (larger); every comparison with NaN
\* is False.
PyLess(a, b) == a # NaN /\ b # NaN /\ a < b
PyMin(a, b) == IF PyLess(b, a) THEN b ELSE a
PyMax(a, b) == IF PyLess(a, b) THEN b ELSE a

\* round(x, 2) of a non-negative float that is an exact multiple of 1/8:
\* halves of a hundredth are exact ties and go to the even hundredth.
Round2(x) ==
  IF x % 2 = 0 THEN x
  ELSE LET q == x \div 2 IN IF q % 2 = 0 THEN 2 * q ELSE 2 * (q + 1)

\* int(x): truncation toward zero; int(nan) raises ValueError
PyInt(x) ==
  IF x = NaN THEN Raise
  ELSE IF x >= 0 THEN x \div 200 ELSE 0 - ((0 - x) \div 200)

-----------------------------------------------------------------------------
(* Column names *)

categorical_cols == <<"service_category", "client_industry", "country", "project_type">>

required_cols_Reordered ==
  <<"service_category", "client_industry", "country", "project_type",
    "total_hours", "total_amount", "num_services", "amount_per_hour",
    "is_large_project", "is_enterprise_client">>

required_cols ==
  <<"service_category", "client_industry", "country", "project_type",
    "total_amount", "total_hours", "num_services", "amount_per_hour",
    "is_large_project", "is_enterprise_client">>

feature_cols ==
  categorical_cols \o <<"total_amount", "total_hours", "num_services",
                        "amount_per_hour", "is_large_project", "is_enterprise_client">>

label_cols == <<"discount", "tax_rate", "needs_detailed_docs">>

Range(s) == {s[i] : i \in 1..Len(s)}

\* the columns generate_it_invoice_data writes into each record
SynthColumns ==
  {"invoice_id", "service_category", "client_industry", "country", "project_type",
   "total_amount", "total_hours", "num_services", "discount", "tax_rate",
   "documentation_complexity", "payment_terms", "timestamp"}

\* every column train_models reads
TrainerColumns == Range(feature_cols) \cup Range(label_cols)

-----------------------------------------------------------------------------
(* Category values.  Alphabet lists every string of the model in sorted     *)
(* order (the order numpy's unique / sort gives a LabelEncoder).            *)

Alphabet ==
  <<"Barter", "Cybersecurity", "Education", "Finance", "Fixed Price",
    "Mining", "Quantum Computing", "Retainer", "Software Development",
    "Support Contract", "Time & Materials", "UK", "US", "ZZ">>

project_types == {"Fixed Price", "Time & Materials", "Retainer", "Support Contract"}

\* values the synthesizer draws from (a sample of each list of the source)
SynthValues ==
  [c \in Range(categorical_cols) |->
     CASE c = "service_category" -> {"Software Development", "Cybersecurity"}
       [] c = "client_industry"  -> {"Finance", "Education"}
       [] c = "country"          -> {"US", "UK"}
       [] c = "project_type"     -> project_types]

\* a column in which only one value was drawn
NarrowValues ==
  [c \in Range(categorical_cols) |->
     CASE c = "service_category" -> {"Software Development"}
       [] c = "client_industry"  -> {"Finance"}
       [] c = "country"          -> {"US"}
       [] c = "project_type"     -> {"Fixed Price"}]

-----------------------------------------------------------------------------
(* sklearn objects *)

\* LabelEncoder(): unfitted until fit
NewLabelEncoder == [fitted |-> FALSE, classes |-> <<>>]

\* LabelEncoder.fit: classes_ = the sorted distinct values of the column
FitLabelEncoder(vals) ==
  [fitted |-> TRUE, classes |-> SelectSeq(Alphabet, LAMBDA s : s \in vals)]

\* LabelEncoder.transform([v])[0]: the index of v in classes_, or ValueError
\* (NotFittedError is a ValueError too) - reported here as Raise
IndexOf(seq, v) == CHOOSE i \in 1..Len(seq) : seq[i] = v
EncoderTransform(enc, v) ==
  IF enc.fitted /\ v \in Range(enc.classes)
  THEN IndexOf(enc.classes, v) - 1
  ELSE Raise

\* An estimator object.  kind "absent": the attribute was never assigned;
\* "unfitted": constructed but fit did not complete; "fitted": a fitted
\* forest whose behaviour is identified by id.
AbsentModel == [kind |-> "absent", id |-> 0]
UnfittedModel == [kind |-> "unfitted", id |-> 0]
FittedModel(i) == [kind |-> "fitted", id |-> i]

\* What estimators answer.  A fitted forest is a fixed function of its input
\* (random_state=42, predict is pure); which number it gives is not known to
\* the caller, so the table covers below-range, in-range, above-range and NaN
\* outputs and a raising call.
OutputTable ==
  <<Units(12, 4), 0 - Units(3, 0), Units(0, 1), Units(30, 0), NaN, Units(20, 1),
    Raise, Units(0, 0), Units(1, 0), Units(8, 4), Units(26, 3)>>

EstimatorPredict(model, X) ==
  IF model.kind # "fitted" THEN Raise
  ELSE LET v == X.values
           h == model.id + v[1] + 2 * v[2] + 3 * v[3] + 5 * v[4]
                  + (v[5] \div 1000) + v[9] + v[10]
       IN OutputTable[(h % Len(OutputTable)) + 1]

-----------------------------------------------------------------------------
(* Files *)

NoValues == [c \in {} |-> {}]
NoData == [k \in {} |-> 0]

\* it_invoice_dataset.csv: absent, unreadable (pd.read_csv raises something
\* other than FileNotFoundError: zero bytes, not CSV, no permission), or a
\* table with its column set, row count and distinct values per categorical
\* column.
AbsentDataset == [state |-> "absent", columns |-> {}, nrows |-> 0, values |-> NoValues]
UnreadableDataset == [state |-> "unreadable", columns |-> {}, nrows |-> 0, values |-> NoValues]
Table(cols, n, vals) ==
  [state |-> "table", columns |-> cols, nrows |-> n,
   values |-> [c \in (cols \cap Range(categorical_cols)) |-> IF n = 0 THEN {} ELSE vals[c]]]

\* it_invoice_models.joblib: absent, corrupt (joblib.load raises), or a
\* pickled dict
AbsentModelFile == [state |-> "absent", data |-> NoData]
CorruptModelFile == [state |-> "corrupt", data |-> NoData]
DictModelFile(d) == [state |-> "dict", data |-> d]

-----------------------------------------------------------------------------
(* ITInvoicePredictor *)

\* __init__
NewPredictor ==
  [models_loaded |-> FALSE,
   dataset_loaded |-> FALSE,
   dataset |-> AbsentDataset,
   encoders |-> NoData,
   discount_model |-> AbsentModel,
   tax_model |-> AbsentModel,
   docs_model |-> AbsentModel]

\* load_dataset: returns [self, ret]
load_dataset(p, dfile) ==
  IF dfile.state = "table"
  THEN [self |-> [p EXCEPT !.dataset = dfile, !.dataset_loaded = TRUE], ret |-> TRUE]
  ELSE [self |-> p, ret |-> FALSE]

\* a Python dict store d[k] = v
DictSet(d, k, v) == [x \in (DOMAIN d) \cup {k} |-> IF x = k THEN v ELSE d[x]]

\* the identity of the forest fit on (table, label): fit is deterministic
\* given the data (random_state=42)
TrainId(table, labelIdx) ==
  table.nrows + Cardinality(table.values["service_category"])
    + 2 * Cardinality(table.values["country"]) + labelIdx

\* the encoder loop of train_models, columns 1..k-1 done, starting at k:
\* returns [encoders, ok]
RECURSIVE FitEncoders(_, _, _)
FitEncoders(encs, table, k) ==
  IF k > Len(categorical_cols) THEN [encoders |-> encs, ok |-> TRUE]
  ELSE LET col == categorical_cols[k]
       IN IF col \notin table.columns
          THEN [encoders |-> DictSet(encs, col, NewLabelEncoder), ok |-> FALSE]
          ELSE FitEncoders(DictSet(encs, col, FitLabelEncoder(table.values[col])),
                           table, k + 1)

\* estimator.fit(X, self.dataset[label]): KeyError when the label column is
\* missing, ValueError on zero rows
CanFit(table, labelIdx) ==
  /\ label_cols[labelIdx] \in table.columns
  /\ table.nrows > 0

\* The attempts a call makes, in order: "load" is the joblib.load attempt of
\* load_models with the assignments that follow it, "train" a call of
\* train_models, "prepare" a call of prepare_features_for_prediction.
Step(name, ok) == [step |-> name, ok |-> ok]
Logged(r, log) == [self |-> r.self, ret |-> r.ret, log |-> log]

\* the "Train models" part of train_models (lines 95-105), the feature
\* matrix being built
FitModels_FlagFirst(p) ==
  LET p3 == [p EXCEPT !.discount_model = UnfittedModel,
                      !.tax_model = UnfittedModel,
                      !.docs_model = UnfittedModel,
                      !.models_loaded = TRUE]
  IN IF ~CanFit(p3.dataset, 1) THEN [self |-> p3, ret |-> FALSE]
     ELSE
       LET p4 == [p3 EXCEPT !.discount_model = FittedModel(TrainId(p3.dataset, 1))]
       IN IF ~CanFit(p4.dataset, 2) THEN [self |-> p4, ret |-> FALSE]
          ELSE
            LET p5 == [p4 EXCEPT !.tax_model = FittedModel(TrainId(p4.dataset, 2))]
            IN IF ~CanFit(p5.dataset, 3) THEN [self |-> p5, ret |-> FALSE]
               ELSE [self |-> [p5 EXCEPT !.docs_model = FittedModel(TrainId(p5.dataset, 3))],
                     ret |-> TRUE]

FitModels(p) ==
  LET p3 == [p EXCEPT !.discount_model = UnfittedModel,
                      !.tax_model = UnfittedModel,
                      !.docs_model = UnfittedModel]
  IN IF ~CanFit(p3.dataset, 1) THEN [self |-> p3, ret |-> FALSE]
     ELSE
       LET p4 == [p3 EXCEPT !.discount_model = FittedModel(TrainId(p3.dataset, 1))]
       IN IF ~CanFit(p4.dataset, 2) THEN [self |-> p4, ret |-> FALSE]
          ELSE
            LET p5 == [p4 EXCEPT !.tax_model = FittedModel(TrainId(p4.dataset, 2))]
            IN IF ~CanFit(p5.dataset, 3) THEN [self |-> p5, ret |-> FALSE]
               ELSE [self |-> [p5 EXCEPT !.docs_model = FittedModel(TrainId(p5.dataset, 3)),
                                         !.models_loaded = TRUE],
                     ret |-> TRUE]

\* the body of train_models: returns [self, ret]
TrainBody(p, dfile) ==
  LET ld == load_dataset(p, dfile) IN
  IF ~ld.ret THEN [self |-> ld.self, ret |-> FALSE]
  ELSE
    LET p1 == ld.self
        enc == FitEncoders(p1.encoders, p1.dataset, 1)
        p2 == [p1 EXCEPT !.encoders = enc.encoders]
    IN IF ~enc.ok THEN [self |-> p2, ret |-> FALSE]
       ELSE IF ~(Range(feature_cols) \subseteq p2.dataset.columns)
       THEN [self |-> p2, ret |-> FALSE]
       ELSE FitModels(p2)

\* train_models: returns [self, ret, log]
train_models(p, dfile) ==
  LET r == TrainBody(p, dfile) IN Logged(r, <<Step("train", r.ret)>>)

LoadFailed_NoTrain(p, dfile) ==
  [self |-> p, ret |-> FALSE, log |-> <<Step("load", FALSE), Step("train", FALSE)>>]

\* load_models' except clauses: the load attempt failed, train instead
LoadFailed(p, dfile) ==
  LET t == train_models(p, dfile) IN Logged(t, <<Step("load", FALSE)>> \o t.log)

LoadFromDict_StrictEncoders(p, d, dfile) ==
  IF "discount_model" \notin DOMAIN d THEN LoadFailed(p, dfile)
  ELSE
    LET p1 == [p EXCEPT !.discount_model = d["discount_model"]] IN
    IF "tax_model" \notin DOMAIN d THEN LoadFailed(p1, dfile)
    ELSE
      LET p2 == [p1 EXCEPT !.tax_model = d["tax_model"]] IN
      IF "docs_model" \notin DOMAIN d THEN LoadFailed(p2, dfile)
      ELSE
        LET p3 == [p2 EXCEPT !.docs_model = d["docs_model"]] IN
        IF "encoders" \notin DOMAIN d THEN LoadFailed(p3, dfile)
        ELSE [self |-> [p3 EXCEPT !.encoders = d["encoders"], !.models_loaded = TRUE],
              ret |-> TRUE,
              log |-> <<Step("load", TRUE)>>]

\* the assignments of load_models from a model_data dict d (lines 227-233);
\* a missing key is a KeyError and ends in the handler's train_models
LoadFromDict(p, d, dfile) ==
  IF "discount_model" \notin DOMAIN d THEN LoadFailed(p, dfile)
  ELSE
    LET p1 == [p EXCEPT !.discount_model = d["discount_model"]] IN
    IF "tax_model" \notin DOMAIN d THEN LoadFailed(p1, dfile)
    ELSE
      LET p2 == [p1 EXCEPT !.tax_model = d["tax_model"]] IN
      IF "docs_model" \notin DOMAIN d THEN LoadFailed(p2, dfile)
      ELSE [self |-> [p2 EXCEPT !.docs_model = d["docs_model"],
                                !.encoders = IF "encoders" \in DOMAIN d
                                             THEN d["encoders"] ELSE NoData,
                                !.models_loaded = TRUE],
            ret |-> TRUE,
            log |-> <<Step("load", TRUE)>>]

load_models_FlagFirst(p, mfile, dfile) ==
  IF mfile.state # "dict"
  THEN LoadFailed([p EXCEPT !.models_loaded = TRUE], dfile)
  ELSE LoadFromDict([p EXCEPT !.models_loaded = TRUE], mfile.data, dfile)

\* load_models: returns [self, ret, log]
load_models(p, mfile, dfile) ==
  IF mfile.state # "dict" THEN LoadFailed(p, dfile)
  ELSE LoadFromDict(p, mfile.data, dfile)

model_data_Swapped(p) ==
  [k \in {"discount_model", "tax_model", "docs_model", "encoders"} |->
     CASE k = "discount_model" -> p.tax_model
       [] k = "tax_model"      -> p.discount_model
       [] k = "docs_model"     -> p.docs_model
       [] k = "encoders"       -> p.encoders]

\* the dict save_models pickles
model_data(p) ==
  [k \in {"discount_model", "tax_model", "docs_model", "encoders"} |->
     CASE k = "discount_model" -> p.discount_model
       [] k = "tax_model"      -> p.tax_model
       [] k = "docs_model"     -> p.docs_model
       [] k = "encoders"       -> p.encoders]

save_models_WriteAnyway(p, mfile, dfile, dump) ==
  LET tr == IF ~p.models_loaded THEN train_models(p, dfile)
            ELSE [self |-> p, ret |-> TRUE, log |-> <<>>]
  IN [self |-> tr.self, file |-> DictModelFile(model_data(tr.self)),
      ret |-> tr.ret /\ dump = "ok", log |-> tr.log]

\* save_models: returns [self, file, ret].  dump is how joblib.dump ends:
\* "ok", "denied" (the file could not be opened) or "partial" (it raised
\* while writing and left a truncated file).
save_models(p, mfile, dfile, dump) ==
  LET tr == IF ~p.models_loaded THEN train_models(p, dfile)
            ELSE [self |-> p, ret |-> TRUE, log |-> <<>>]
  IN IF ~tr.ret THEN [self |-> tr.self, file |-> mfile, ret |-> FALSE, log |-> tr.log]
     ELSE CASE dump = "ok" ->
                 [self |-> tr.self, file |-> DictModelFile(model_data(tr.self)),
                  ret |-> TRUE, log |-> tr.log]
            [] dump = "denied" ->
                 [self |-> tr.self, file |-> mfile, ret |-> FALSE, log |-> tr.log]
            [] dump = "partial" ->
                 [self |-> tr.self, file |-> CorruptModelFile, ret |-> FALSE, log |-> tr.log]

-----------------------------------------------------------------------------
(* predict *)

\* input_dict of predict.  total_hours is <<h>> for a number h and <<>> for a
\* value max() cannot compare with 1 (None).
input_dict(category, industry, ctry, ptype, amount, hours, num) ==
  [service_category |-> category, client_industry |-> industry,
   country |-> ctry, project_type |-> ptype,
   total_amount |-> amount, total_hours |-> hours,
   num_services |-> num]

EncodeColumn_NoFallback(encoders, col, value) ==
  IF col \in DOMAIN encoders
  THEN EncoderTransform(encoders[col], value)
  ELSE 0

\* the code a categorical column gets in prepare_features_for_prediction
EncodeColumn(encoders, col, value) ==
  IF col \in DOMAIN encoders
  THEN LET c == EncoderTransform(encoders[col], value)
       IN IF c = Raise THEN 0 ELSE c
  ELSE 0

\* prepare_features_for_prediction: [ok, columns, values]; ok = FALSE is the
\* None it returns from its except clause.  in is input_dict, a dict that
\* may lack keys.
NoFeatures == [ok |-> FALSE, columns |-> <<>>, values |-> <<>>]

\* input_df after the statements of the try block, the lookups of lines
\* 53-55 having succeeded
InputDf(p, in) ==
  LET hours == in.total_hours[1] IN
  [c \in Range(required_cols) |->
     CASE c \in Range(categorical_cols) ->
            IF c \in DOMAIN in THEN EncodeColumn(p.encoders, c, in[c]) ELSE 0
       [] c = "total_amount" -> in.total_amount
       [] c = "total_hours" -> hours
       [] c = "num_services" -> IF c \in DOMAIN in THEN in.num_services ELSE 0
       [] c = "amount_per_hour" ->
            <<in.total_amount, IF hours > 1 THEN hours ELSE 1>>
       [] c = "is_large_project" -> IF in.total_amount > 20000 THEN 1 ELSE 0
       [] c = "is_enterprise_client" ->
            IF in.client_industry \in {"Finance", "Healthcare"} THEN 1 ELSE 0]

prepare_features_for_prediction_Strict(p, in) ==
  IF ~({"service_category", "client_industry", "country", "project_type",
        "total_amount", "total_hours", "num_services"} \subseteq DOMAIN in)
  THEN NoFeatures
  ELSE IF in.total_hours = <<>> THEN NoFeatures
  ELSE [ok |-> TRUE, columns |-> required_cols,
        values |-> [i \in 1..Len(required_cols) |-> InputDf(p, in)[required_cols[i]]]]

prepare_features_for_prediction(p, in) ==
  IF ~({"total_amount", "total_hours"} \subseteq DOMAIN in) THEN NoFeatures
  ELSE IF in.total_hours = <<>> THEN NoFeatures
  ELSE IF "client_industry" \notin DOMAIN in THEN NoFeatures
  ELSE [ok |-> TRUE, columns |-> required_cols,
        values |-> [i \in 1..Len(required_cols) |-> InputDf(p, in)[required_cols[i]]]]

payment_terms_map ==
  [t \in project_types |->
     CASE t = "Fixed Price"      -> "50% Advance, 50% on Completion"
       [] t = "Time & Materials" -> "Net 30"
       [] t = "Retainer"         -> "Monthly in Advance"
       [] t = "Support Contract" -> "Quarterly in Advance"]

\* payment_terms_map.get(project_type, 'Net 30')
PaymentTerms(project_type) ==
  IF project_type \in DOMAIN payment_terms_map
  THEN payment_terms_map[project_type] ELSE "Net 30"

service_notes_map ==
  [c \in {"Software Development", "Cloud Services", "Cybersecurity", "IT Consulting"} |->
     CASE c = "Software Development" ->
            "Includes code documentation, testing, and deployment support."
       [] c = "Cloud Services" ->
            "Includes architecture design, security configuration, and monitoring."
       [] c = "Cybersecurity" ->
            "Includes security assessment, vulnerability scanning, and compliance reports."
       [] c = "IT Consulting" ->
            "Comprehensive analysis, strategy recommendations, and implementation guidance."]

\* service_notes are sequences of text pieces
ServiceNotes(service_category) ==
  IF service_category \in DOMAIN service_notes_map
  THEN <<service_notes_map[service_category]>>
  ELSE <<"Professional IT services delivered to industry standards.">>

DefaultDiscount_Inclusive(total_amount) ==
  IF total_amount >= 20000 THEN Units(10, 0)
  ELSE IF total_amount >= 10000 THEN Units(5, 0)
  ELSE IF total_amount >= 5000 THEN Units(2, 0)
  ELSE Units(0, 0)

\* _get_smart_defaults
DefaultDiscount(total_amount) ==
  IF total_amount > 20000 THEN Units(10, 0)
  ELSE IF total_amount > 10000 THEN Units(5, 0)
  ELSE IF total_amount > 5000 THEN Units(2, 0)
  ELSE Units(0, 0)

DefaultTaxRate == Units(8, 4)

DefaultDocComplexity_Tier8000(total_amount) ==
  IF total_amount > 15000 THEN "High"
  ELSE IF total_amount > 8000 THEN "Medium"
  ELSE "Low"

DefaultDocComplexity(total_amount) ==
  IF total_amount > 15000 THEN "High"
  ELSE IF total_amount > 5000 THEN "Medium"
  ELSE "Low"

DefaultServiceNotes(service_category, client_industry, total_amount) ==
  <<"Professional ", service_category, " services for ", client_industry,
    " sector. Total project value: $", ToString(total_amount), ".00">>

get_smart_defaults(service_category, client_industry, project_type, total_amount) ==
  [discount |-> DefaultDiscount(total_amount),
   tax_rate |-> DefaultTaxRate,
   documentation_complexity |-> DefaultDocComplexity(total_amount),
   payment_terms |-> PaymentTerms(project_type),
   service_notes |-> DefaultServiceNotes(service_category, client_industry, total_amount)]

\* what a call of predict ends in: the predictor afterwards, whether an
\* exception left predict, the returned dict, and which return statement
\* produced it ("inference": line 173, "default": lines 120, 149, 154)
NoBundle ==
  [discount |-> 0, tax_rate |-> 0, documentation_complexity |-> "",
   payment_terms |-> "", service_notes |-> <<>>]

Returned(p, bundle, path) == [self |-> p, raised |-> FALSE, ret |-> bundle, path |-> path]
Raised(p) == [self |-> p, raised |-> TRUE, ret |-> NoBundle, path |-> "none"]

ReturnDefaults(p, in) ==
  Returned(p, get_smart_defaults(in.service_category, in.client_industry,
                                 in.project_type, in.total_amount), "default")

OnPredictionError_Reraise(p, in) == Raised(p)

\* the except clause of predict
OnPredictionError(p, in) == ReturnDefaults(p, in)

\* the statements after the try block of predict
BuildBundle(p, in, discount, tax_rate, doc_complexity) ==
  Returned(p,
           [discount |-> Round2(discount),
            tax_rate |-> Round2(tax_rate),
            documentation_complexity |-> doc_complexity,
            payment_terms |-> PaymentTerms(in.project_type),
            service_notes |-> ServiceNotes(in.service_category)],
           "inference")

ClampDiscount_Unclamped(discount) == discount

\* the business rules of predict
ClampDiscount(discount) == PyMax(0, PyMin(Units(20, 0), discount))
ClampTaxRate(tax_rate) == PyMax(0, PyMin(Units(25, 0), tax_rate))

DocComplexity_ThreeLevel(needs_detailed_docs) ==
  IF needs_detailed_docs > 1 THEN "High"
  ELSE IF needs_detailed_docs = 1 THEN "Medium"
  ELSE "Low"

DocComplexity(needs_detailed_docs) == IF needs_detailed_docs # 0 THEN "High" ELSE "Medium"

\* the inference branch of predict, from X_pred on
Infer(p, in, X) ==
  LET discount == EstimatorPredict(p.discount_model, X)
      tax_rate == EstimatorPredict(p.tax_model, X)
      docs == EstimatorPredict(p.docs_model, X)
      needs_detailed_docs == IF docs = Raise THEN Raise ELSE PyInt(docs)
  IN IF discount = Raise \/ tax_rate = Raise \/ needs_detailed_docs = Raise
     THEN OnPredictionError(p, in)
     ELSE BuildBundle(p, in, ClampDiscount(discount), ClampTaxRate(tax_rate),
                      DocComplexity(needs_detailed_docs))

\* predict, once an artifact is (or has just been) loaded
PredictLoaded(p, in) ==
  LET X_pred == prepare_features_for_prediction(p, in)
  IN IF X_pred.ok /\ p.models_loaded
     THEN Infer(p, in, X_pred)
     ELSE ReturnDefaults(p, in)

\* a result of predict with the attempts made on the way to it
WithLog(r, log) ==
  [self |-> r.self, raised |-> r.raised, ret |-> r.ret, path |-> r.path, log |-> log]

\* predict from "Prepare input data" on, with the attempts made before it
PredictPrepared(p, in, log) ==
  WithLog(PredictLoaded(p, in),
          log \o <<Step("prepare", prepare_features_for_prediction(p, in).ok)>>)

predict_DefaultsOnLoad(p, mfile, dfile, in) ==
  IF ~p.models_loaded
  THEN LET ld == load_models(p, mfile, dfile)
       IN WithLog(ReturnDefaults(ld.self, in), ld.log)
  ELSE PredictPrepared(p, in, <<>>)

predict_Retry(p, mfile, dfile, in) ==
  IF ~p.models_loaded
  THEN LET ld == load_models(p, mfile, dfile)
       IN IF ~ld.ret
          THEN LET again == load_models(ld.self, mfile, dfile)
               IN IF ~again.ret
                  THEN WithLog(ReturnDefaults(again.self, in), ld.log \o again.log)
                  ELSE PredictPrepared(again.self, in, ld.log \o again.log)
          ELSE PredictPrepared(ld.self, in, ld.log)
  ELSE PredictPrepared(p, in, <<>>)

predict_ReloadEachCall(p, mfile, dfile, in) ==
  LET ld == load_models(p, mfile, dfile)
  IN IF ~ld.ret THEN WithLog(ReturnDefaults(ld.self, in), ld.log)
     ELSE PredictPrepared(ld.self, in, ld.log)

\* predict
predict(p, mfile, dfile, in) ==
  IF ~p.models_loaded
  THEN LET ld == load_models(p, mfile, dfile)
       IN IF ~ld.ret THEN WithLog(ReturnDefaults(ld.self, in), ld.log)
          ELSE PredictPrepared(ld.self, in, ld.log)
  ELSE PredictPrepared(p, in, <<>>)

-----------------------------------------------------------------------------
(* create_it_dataset.py *)

\* generate_it_invoice_data(num_samples): the returned DataFrame.  vals is
\* what the random draws happened to cover.
generate_it_invoice_data(num_samples, vals) == Table(SynthColumns, num_samples, vals)

\* the payment_terms generate_it_invoice_data writes into a record (lines
\* 100-105)
SynthPaymentTerms(project_type) ==
  IF project_type = "Fixed Price" THEN "50% Advance, 50% on Completion"
  ELSE IF project_type = "Support Contract" THEN "Monthly in Advance"
  ELSE "Net 30"

-----------------------------------------------------------------------------
(* it_invoice_app.py: calculate_project_totals *)
(* Percentages here are in half percents (8.5% = 17) and money results in   *)
(* units of 1/40000, so that x * (pct / 100) is the integer x * pct * 200   *)
(* on an unscaled x and x * pct on a scaled one.                            *)

Money(x) == x * 40000

\* sum(service['hours'] * service['hourly_rate'] for service in services)
RECURSIVE SumAmounts(_)
SumAmounts(seq) ==
  IF seq = <<>> THEN 0
  ELSE Head(seq).hours * Head(seq).hourly_rate + SumAmounts(Tail(seq))

\* sum(service['hours'] for service in services)
RECURSIVE SumHours(_)
SumHours(seq) ==
  IF seq = <<>> THEN 0 ELSE Head(seq).hours + SumHours(Tail(seq))

WellFormed(svcs) ==
  \A i \in 1..Len(svcs) : {"hours", "hourly_rate"} \subseteq DOMAIN svcs[i]

ZeroTotals ==
  [subtotal |-> 0, discount_amount |-> 0, tax_amount |-> 0, total |-> 0, total_hours |-> 0]

calculate_project_totals_TaxOnSubtotal(svcs, discount, tax_rate) ==
  IF ~WellFormed(svcs) THEN ZeroTotals
  ELSE
    LET subtotal == SumAmounts(svcs)
        discount_amount == subtotal * discount * 200
        taxable_amount == Money(subtotal) - discount_amount
        tax_amount == subtotal * 200 * tax_rate
        total == taxable_amount + tax_amount
        total_hours == SumHours(svcs)
    IN [subtotal |-> Money(subtotal), discount_amount |-> discount_amount,
        tax_amount |-> tax_amount, total |-> total, total_hours |-> total_hours]

calculate_project_totals(svcs, discount, tax_rate) ==
  IF ~WellFormed(svcs) THEN ZeroTotals
  ELSE
    LET subtotal == SumAmounts(svcs)
        discount_amount == subtotal * discount * 200
        taxable_amount == Money(subtotal) - discount_amount
        tax_amount == (taxable_amount \div 200) * tax_rate
        total == taxable_amount + tax_amount
        total_hours == SumHours(svcs)
    IN [subtotal |-> Money(subtotal), discount_amount |-> discount_amount,
        tax_amount |-> tax_amount, total |-> total, total_hours |-> total_hours]

-----------------------------------------------------------------------------
(* it_invoice_app.py: SimpleInvoicePredictor *)

\* SimpleInvoicePredictor.__init__
NewSimplePredictor == [models_loaded |-> FALSE]

\* SimpleInvoicePredictor.load_models: returns [self, ret]; the loaded
\* model_data is dropped
SimpleLoadModels(sp, mfile) ==
  IF mfile.state = "dict"
  THEN [self |-> [sp EXCEPT !.models_loaded = TRUE], ret |-> TRUE]
  ELSE [self |-> [sp EXCEPT !.models_loaded = FALSE], ret |-> FALSE]

SimpleDiscount_Inverted(total_amount) ==
  IF total_amount > 10000 THEN Units(3, 0)
  ELSE IF total_amount > 5000 THEN Units(5, 0)
  ELSE Units(0, 0)

\* the rules of SimpleInvoicePredictor.predict
SimpleDiscount(total_amount) ==
  IF total_amount > 10000 THEN Units(5, 0)
  ELSE IF total_amount > 5000 THEN Units(3, 0)
  ELSE Units(0, 0)

SimpleDocComplexity(total_amount) ==
  IF total_amount > 15000 THEN "High"
  ELSE IF total_amount > 5000 THEN "Medium"
  ELSE "Low"

simple_service_notes_map ==
  [c \in {"Software Development", "Cloud Services", "Cybersecurity", "IT Consulting",
          "System Integration", "Data Analytics", "DevOps Services", "AI/ML Solutions"} |->
     CASE c = "Software Development" ->
            "Includes code documentation, testing, and deployment support."
       [] c = "Cloud Services" ->
            "Includes architecture design and security configuration."
       [] c = "Cybersecurity" ->
            "Includes security assessment and compliance documentation."
       [] c = "IT Consulting" ->
            "Professional consulting services with detailed reports."
       [] c = "System Integration" ->
            "Includes system design and integration testing."
       [] c = "Data Analytics" ->
            "Includes data analysis and visualization reports."
       [] c = "DevOps Services" ->
            "Includes CI/CD pipeline setup and automation."
       [] c = "AI/ML Solutions" ->
            "Includes model development and implementation."]

SimpleServiceNotes(service_category) ==
  IF service_category \in DOMAIN simple_service_notes_map
  THEN <<simple_service_notes_map[service_category]>>
  ELSE <<"Professional IT services delivered to industry standards.">>

\* SimpleInvoicePredictor.predict: the returned dict.  With a number for
\* total_amount and strings for the categories nothing in its try block
\* raises; self.models_loaded is not read.
SimplePredict(sp, in) ==
  [discount |-> SimpleDiscount(in.total_amount),
   tax_rate |-> Units(8, 4),
   documentation_complexity |-> SimpleDocComplexity(in.total_amount),
   payment_terms |-> PaymentTerms(in.project_type),
   service_notes |-> SimpleServiceNotes(in.service_category)]

-----------------------------------------------------------------------------
(* Inputs *)

Service(h, r) == [hours |-> h, hourly_rate |-> r]
InitialService == Service(10, 150)
AddedService == Service(8, 125)
HoursChoices == {5, 10}
RateChoices == {150, 200}
DiscountChoices == {0, 20}
TaxChoices == {0, 17}

\* calls of predict: known categories, categories no encoder has seen,
\* total_hours that is zero or not a number, small and large amounts
Inputs ==
  {input_dict("Software Development", "Finance", "US", "Fixed Price", 25000, <<150>>, 3),
   input_dict("Software Development", "Education", "US", "Time & Materials", 3000, <<20>>, 1),
   input_dict("Quantum Computing", "Mining", "ZZ", "Barter", 25000, <<150>>, 3),
   input_dict("Software Development", "Finance", "US", "Fixed Price", 25000, <<>>, 3),
   input_dict("Cybersecurity", "Finance", "UK", "Retainer", 12000, <<0>>, 2),
   input_dict("Cybersecurity", "Education", "UK", "Support Contract", 8001, <<20>>, 1)}

NoInput == input_dict("", "", "", "", 0, <<>>, 0)

\* dataset files the environment can leave on disk
CompleteColumns == TrainerColumns \cup {"invoice_id"}
DatasetChoices ==
  {AbsentDataset, UnreadableDataset,
   Table(CompleteColumns, 3, SynthValues),
   Table(CompleteColumns, 0, SynthValues)}
  \cup {Table(CompleteColumns \ {c}, 3, NarrowValues) :
          c \in {"needs_detailed_docs"}}

\* the encoder table of an artifact file written by an earlier training run
FileEncoders == [c \in Range(categorical_cols) |-> FitLabelEncoder(SynthValues[c])]

ArtifactDict(k, encs) ==
  [f \in {"discount_model", "tax_model", "docs_model", "encoders"} |->
     CASE f = "discount_model" -> FittedModel(k)
       [] f = "tax_model"      -> FittedModel(k + 1)
       [] f = "docs_model"     -> FittedModel(k + 2)
       [] f = "encoders"       -> encs]

Without(d, f) == [x \in (DOMAIN d) \ {f} |-> d[x]]

\* artifact files the environment can leave on disk
ModelFileChoices ==
  {AbsentModelFile, CorruptModelFile}
  \cup {DictModelFile(ArtifactDict(k, FileEncoders)) : k \in 0..(NumForeign - 1)}
  \cup {DictModelFile(Without(ArtifactDict(0, FileEncoders), f)) :
          f \in {"tax_model", "encoders"}}

-----------------------------------------------------------------------------
(* State machine *)

\* the last call: nrows is the number of records of the table a call of
\* generate_it_invoice_data returned to it
NoCall ==
  [op |-> "none", input |-> NoInput, raised |-> FALSE, ok |-> FALSE,
   ret |-> NoBundle, path |-> "none", was_loaded |-> FALSE, log |-> <<>>,
   nrows |-> 0]

NoPrev == [valid |-> FALSE, ret |-> NoBundle, was_loaded |-> FALSE]

NoTotals ==
  [called |-> FALSE, services |-> <<>>, discount |-> 0, tax_rate |-> 0,
   result |-> ZeroTotals]

Init ==
  /\ predictor = NewPredictor
  /\ modelFile = AbsentModelFile
  /\ datasetFile = AbsentDataset
  /\ lastCall = NoCall
  /\ prevSame = NoPrev
  /\ services = <<InitialService>>
  /\ discountPct = 0
  /\ taxPct = 0
  /\ totals = NoTotals
  /\ appPredictor = NewSimplePredictor
  /\ datasetModuleImported = FALSE

\* predictor = ITInvoicePredictor()
Construct ==
  /\ predictor' = NewPredictor
  /\ lastCall' = [NoCall EXCEPT !.op = "construct", !.was_loaded = predictor.models_loaded]
  /\ prevSame' = NoPrev
  /\ UNCHANGED <<modelFile, datasetFile>>
  /\ UNCHANGED totalsVars
  /\ UNCHANGED appVars

\* predictor.predict(...)
Predict(in) ==
  \E r \in {predict(predictor, modelFile, datasetFile, in)} :
  /\ predictor' = r.self
  /\ lastCall' = [op |-> "predict", input |-> in, raised |-> r.raised,
                  ok |-> ~r.raised, ret |-> r.ret, path |-> r.path,
                  was_loaded |-> predictor.models_loaded, log |-> r.log,
                  nrows |-> 0]
  /\ prevSame' = IF lastCall.op = "predict" /\ lastCall.input = in /\ ~lastCall.raised
                 THEN [valid |-> TRUE, ret |-> lastCall.ret, was_loaded |-> lastCall.was_loaded]
                 ELSE NoPrev
  /\ UNCHANGED <<modelFile, datasetFile>>
  /\ UNCHANGED totalsVars
  /\ UNCHANGED appVars

\* predictor.train_models()
TrainModels ==
  \E r \in {train_models(predictor, datasetFile)} :
  /\ predictor' = r.self
  /\ lastCall' = [NoCall EXCEPT !.op = "train_models", !.ok = r.ret, !.log = r.log,
                                 !.was_loaded = predictor.models_loaded]
  /\ prevSame' = NoPrev
  /\ UNCHANGED <<modelFile, datasetFile>>
  /\ UNCHANGED totalsVars
  /\ UNCHANGED appVars

\* predictor.load_models()
LoadModels ==
  \E r \in {load_models(predictor, modelFile, datasetFile)} :
  /\ predictor' = r.self
  /\ lastCall' = [NoCall EXCEPT !.op = "load_models", !.ok = r.ret, !.log = r.log,
                                 !.was_loaded = predictor.models_loaded]
  /\ prevSame' = NoPrev
  /\ UNCHANGED <<modelFile, datasetFile>>
  /\ UNCHANGED totalsVars
  /\ UNCHANGED appVars

\* predictor.save_models()
SaveModels(dump) ==
  \E r \in {save_models(predictor, modelFile, datasetFile, dump)} :
  /\ predictor' = r.self
  /\ modelFile' = r.file
  /\ lastCall' = [NoCall EXCEPT !.op = "save_models", !.ok = r.ret, !.log = r.log,
                                 !.was_loaded = predictor.models_loaded]
  /\ prevSame' = NoPrev
  /\ UNCHANGED datasetFile
  /\ UNCHANGED totalsVars
  /\ UNCHANGED appVars

\* running create_it_dataset.py: generate 2000 records and write the CSV
RunCreateDataset(vals) ==
  /\ datasetFile' = generate_it_invoice_data(2000, vals)
  /\ lastCall' = NoCall
  /\ prevSame' = NoPrev
  /\ UNCHANGED <<predictor, modelFile>>
  /\ UNCHANGED totalsVars
  /\ UNCHANGED appVars

\* the dataset file is replaced or removed from outside
PutDatasetFile(d) ==
  /\ datasetFile # d
  /\ datasetFile' = d
  /\ lastCall' = NoCall
  /\ prevSame' = NoPrev
  /\ UNCHANGED <<predictor, modelFile>>
  /\ UNCHANGED totalsVars
  /\ UNCHANGED appVars

\* the artifact file is replaced or removed from outside
PutModelFile(f) ==
  /\ modelFile # f
  /\ modelFile' = f
  /\ lastCall' = NoCall
  /\ prevSame' = NoPrev
  /\ UNCHANGED <<predictor, datasetFile>>
  /\ UNCHANGED totalsVars
  /\ UNCHANGED appVars

Next ==
  \/ Construct
  \/ \E in \in Inputs : Predict(in)
  \/ TrainModels
  \/ LoadModels
  \/ \E dump \in {"ok", "denied", "partial"} : SaveModels(dump)
  \/ \E vals \in {SynthValues} : RunCreateDataset(vals)
  \/ \E d \in DatasetChoices : PutDatasetFile(d)
  \/ \E f \in ModelFileChoices : PutModelFile(f)

Spec == Init /\ [][Next]_vars

-----------------------------------------------------------------------------
(* The invoice form: the service list and the totals shown for it *)

AddService ==
  /\ Len(services) < MaxItems
  /\ services' = Append(services, AddedService)
  /\ UNCHANGED <<discountPct, taxPct, totals>>
  /\ UNCHANGED predVars
  /\ UNCHANGED appVars

RemoveLastService ==
  /\ Len(services) > 1
  /\ services' = SubSeq(services, 1, Len(services) - 1)
  /\ UNCHANGED <<discountPct, taxPct, totals>>
  /\ UNCHANGED predVars
  /\ UNCHANGED appVars

EditService(i, h, r) ==
  /\ i \in 1..Len(services)
  /\ services' = [services EXCEPT ![i] = Service(h, r)]
  /\ UNCHANGED <<discountPct, taxPct, totals>>
  /\ UNCHANGED predVars
  /\ UNCHANGED appVars

SetRates(d, t) ==
  /\ discountPct' = d
  /\ taxPct' = t
  /\ UNCHANGED <<services, totals>>
  /\ UNCHANGED predVars
  /\ UNCHANGED appVars

CalculateTotals ==
  /\ totals' = [called |-> TRUE, services |-> services, discount |-> discountPct,
                tax_rate |-> taxPct,
                result |-> calculate_project_totals(services, discountPct, taxPct)]
  /\ UNCHANGED <<services, discountPct, taxPct>>
  /\ UNCHANGED predVars
  /\ UNCHANGED appVars

NextTotals ==
  \/ AddService
  \/ RemoveLastService
  \/ \E i \in 1..MaxItems, h \in HoursChoices, r \in RateChoices : EditService(i, h, r)
  \/ \E d \in DiscountChoices, t \in TaxChoices : SetRates(d, t)
  \/ CalculateTotals

SpecTotals == Init /\ [][NextTotals]_vars

TypeOK ==
  /\ predictor.models_loaded \in BOOLEAN
  /\ modelFile.state \in {"absent", "corrupt", "dict"}
  /\ datasetFile.state \in {"absent", "unreadable", "table"}
  /\ Len(services) \in 1..MaxItems

-----------------------------------------------------------------------------
(* predict with no artifact available: no loadable artifact file and no     *)
(* trainable dataset file                                                   *)

ColdInputs ==
  {input_dict(sc, "Finance", co, pt, a, h, 2) :
     sc \in {"Software Development"},
     co \in {"US", "UK", "DE"},
     pt \in {"Fixed Price", "Time & Materials"},
     a \in {0, 3000, 5000, 5001, 10000, 10001, 15000, 15001, 20000, 20001, 25000},
     h \in {<<20>>, <<150>>}}

ColdDatasetChoices ==
  {AbsentDataset, UnreadableDataset, generate_it_invoice_data(2000, SynthValues)}

ColdModelFileChoices == {AbsentModelFile, CorruptModelFile}

NextCold ==
  \/ Construct
  \/ \E in \in ColdInputs : Predict(in)
  \/ \E d \in ColdDatasetChoices : PutDatasetFile(d)
  \/ \E f \in ColdModelFileChoices : PutModelFile(f)

SpecCold == Init /\ [][NextCold]_vars

-----------------------------------------------------------------------------
(* The rule-based defaults of both predictors over a range of amounts *)

\* ProfessionalITInvoiceGenerator.__init__
AppInit ==
  \E r \in {SimpleLoadModels(NewSimplePredictor, modelFile)} :
  /\ appPredictor' = r.self
  /\ lastCall' = [NoCall EXCEPT !.op = "app_init", !.ok = r.ret,
                                 !.was_loaded = appPredictor.models_loaded]
  /\ prevSame' = NoPrev
  /\ UNCHANGED <<predictor, modelFile, datasetFile, datasetModuleImported>>
  /\ UNCHANGED totalsVars

\* invoice_gen.predictor.predict(...) in main
AppPredict(in) ==
  /\ lastCall' = [op |-> "app_predict", input |-> in, raised |-> FALSE, ok |-> TRUE,
                  ret |-> SimplePredict(appPredictor, in), path |-> "default",
                  was_loaded |-> appPredictor.models_loaded, log |-> <<>>,
                  nrows |-> 0]
  /\ prevSame' = NoPrev
  /\ UNCHANGED <<predictor, modelFile, datasetFile>>
  /\ UNCHANGED totalsVars
  /\ UNCHANGED appVars

DefaultAmounts ==
  {0, 5000, 5001, 8000, 8001, 10000, 10001, 15000, 15001, 20000, 20001, 25000}

DefaultInputs ==
  {input_dict(sc, ci, "US", "Fixed Price", a, h, 2) :
     sc \in {"Software Development", "Cybersecurity"},
     ci \in {"Finance", "Education"},
     a \in DefaultAmounts,
     h \in {<<20>>, <<>>}}

DefaultModelFileChoices ==
  {AbsentModelFile, DictModelFile(ArtifactDict(0, FileEncoders))}

NextDefaults ==
  \/ Construct
  \/ AppInit
  \/ \E in \in DefaultInputs : Predict(in)
  \/ \E in \in DefaultInputs : AppPredict(in)
  \/ \E f \in DefaultModelFileChoices : PutModelFile(f)

SpecDefaults == Init /\ [][NextDefaults]_vars

-----------------------------------------------------------------------------
(* Feature preparation on records that lack fields *)

\* predictor.prepare_features_for_prediction(d)
PrepareFeatures(d) ==
  /\ lastCall' = [NoCall EXCEPT !.op = "prepare", !.input = d,
                                 !.ok = prepare_features_for_prediction(predictor, d).ok,
                                 !.was_loaded = predictor.models_loaded]
  /\ prevSame' = NoPrev
  /\ UNCHANGED <<predictor, modelFile, datasetFile>>
  /\ UNCHANGED totalsVars
  /\ UNCHANGED appVars

InputFields == DOMAIN NoInput

\* records for prepare_features_for_prediction: complete ones and ones with
\* one field left out
PartialInputs ==
  Inputs \cup {Without(in, f) :
                 in \in {input_dict("Cybersecurity", "Finance", "UK", "Retainer",
                                    12000, <<0>>, 2),
                         input_dict("Software Development", "Education", "US",
                                    "Time & Materials", 3000, <<20>>, 1)},
                 f \in InputFields}

NextPrepare ==
  \/ Construct
  \/ LoadModels
  \/ TrainModels
  \/ \E d \in ColdDatasetChoices : PutDatasetFile(d)
  \/ \E in \in Inputs : Predict(in)
  \/ \E d \in PartialInputs : PrepareFeatures(d)
  \/ \E f \in DefaultModelFileChoices : PutModelFile(f)

SpecPrepare == Init /\ [][NextPrepare]_vars

-----------------------------------------------------------------------------
(* The callers of generate_it_invoice_data *)

\* `from create_it_dataset import generate_it_invoice_data` in a process
\* where the module is not imported yet runs the module's top level, lines
\* 125-127: it generates 2000 records and writes them to the dataset file.
\* write is how to_csv ends: "ok", or "denied" (it raised and so does the
\* import).  Returns the file afterwards and whether the import succeeded.
ImportCreateDataset(imported, dfile, vals, write) ==
  IF imported THEN [file |-> dfile, ok |-> TRUE]
  ELSE IF write = "ok" THEN [file |-> generate_it_invoice_data(2000, vals), ok |-> TRUE]
  ELSE [file |-> dfile, ok |-> FALSE]

\* the app process starts: nothing imported yet, a new predictor
AppProcessStart ==
  /\ datasetModuleImported' = FALSE
  /\ appPredictor' = NewSimplePredictor
  /\ lastCall' = [NoCall EXCEPT !.op = "app_start"]
  /\ prevSame' = NoPrev
  /\ UNCHANGED <<predictor, modelFile, datasetFile>>
  /\ UNCHANGED totalsVars

\* the "Create Sample Dataset" button of main: the import, then
\* generate_it_invoice_data(1000), whose table is dropped; any exception is
\* caught
AppCreateSampleDataset(vals, write) ==
  \E imp \in {ImportCreateDataset(datasetModuleImported, datasetFile, vals, write)},
     table \in {generate_it_invoice_data(1000, vals)} :
     /\ datasetFile' = imp.file
     /\ datasetModuleImported' = imp.ok
     /\ lastCall' = [NoCall EXCEPT !.op = "create_sample_dataset", !.ok = imp.ok,
                                    !.nrows = IF imp.ok THEN table.nrows ELSE 0]
     /\ prevSame' = NoPrev
     /\ UNCHANGED <<predictor, modelFile, appPredictor>>
     /\ UNCHANGED totalsVars

\* train_it_model.py run as a script, in a process of its own: the dataset
\* check (only FileNotFoundError is caught), the import and the dropped
\* table when the file is absent, then train_models and save_models on a
\* predictor of its own
TrainerMain(vals, write, dump) ==
  LET absent == datasetFile.state = "absent"
      imp == IF absent THEN ImportCreateDataset(FALSE, datasetFile, vals, write)
             ELSE [file |-> datasetFile, ok |-> TRUE]
      crashed == datasetFile.state = "unreadable" \/ ~imp.ok
      table == generate_it_invoice_data(1000, vals)
      tr == train_models(NewPredictor, imp.file)
      sv == save_models(tr.self, modelFile, imp.file, dump)
  IN /\ datasetFile' = imp.file
     /\ modelFile' = IF ~crashed /\ tr.ret THEN sv.file ELSE modelFile
     /\ lastCall' = [NoCall EXCEPT !.op = "trainer_main",
                                    !.raised = crashed,
                                    !.ok = ~crashed /\ tr.ret,
                                    !.log = IF crashed THEN <<>> ELSE tr.log,
                                    !.nrows = IF absent /\ imp.ok THEN table.nrows ELSE 0]
     /\ prevSame' = NoPrev
     /\ UNCHANGED predictor
     /\ UNCHANGED totalsVars
     /\ UNCHANGED appVars

WriteChoices == {"ok", "denied"}

NextData ==
  \/ AppProcessStart
  \/ \E vals \in {SynthValues, NarrowValues}, w \in WriteChoices :
       AppCreateSampleDataset(vals, w)
  \/ \E vals \in {SynthValues, NarrowValues}, w \in WriteChoices,
        dump \in {"ok", "denied", "partial"} : TrainerMain(vals, w, dump)
  \/ \E d \in DatasetChoices : PutDatasetFile(d)
  \/ \E f \in ColdModelFileChoices : PutModelFile(f)

SpecData == Init /\ [][NextData]_vars

-----------------------------------------------------------------------------
(* predict calls with files appearing between them; the record of the last  *)
(* call is kept across a change of the files                                *)

ArtifactAppears(f) ==
  /\ modelFile # f
  /\ modelFile' = f
  /\ UNCHANGED <<predictor, datasetFile, lastCall, prevSame>>
  /\ UNCHANGED totalsVars
  /\ UNCHANGED appVars

DatasetAppears(d) ==
  /\ datasetFile # d
  /\ datasetFile' = d
  /\ UNCHANGED <<predictor, modelFile, lastCall, prevSame>>
  /\ UNCHANGED totalsVars
  /\ UNCHANGED appVars

RecoverModelFileChoices ==
  {AbsentModelFile, CorruptModelFile, DictModelFile(ArtifactDict(0, FileEncoders))}

RecoverDatasetChoices ==
  {AbsentDataset, Table(CompleteColumns, 3, SynthValues),
   generate_it_invoice_data(2000, SynthValues)}

NextRecover ==
  \/ Construct
  \/ \E in \in Inputs : Predict(in)
  \/ \E f \in RecoverModelFileChoices : ArtifactAppears(f)
  \/ \E d \in RecoverDatasetChoices : DatasetAppears(d)

SpecRecover == Init /\ [][NextRecover]_vars

-----------------------------------------------------------------------------
(* Properties *)

BundleFields ==
  {"discount", "tax_rate", "documentation_complexity", "payment_terms", "service_notes"}

KnownPaymentTerms ==
  {"50% Advance, 50% on Completion", "Net 30", "Monthly in Advance", "Quarterly in Advance"}

NotesNonEmpty(notes) == Len(notes) > 0 /\ \A i \in 1..Len(notes) : notes[i] # ""

Complete(b) ==
  /\ DOMAIN b = BundleFields
  /\ b.documentation_complexity # ""
  /\ b.payment_terms # ""
  /\ NotesNonEmpty(b.service_notes)

InRange(b) ==
  /\ 0 <= b.discount /\ b.discount <= Units(20, 0)
  /\ 0 <= b.tax_rate /\ b.tax_rate <= Units(25, 0)
  /\ b.documentation_complexity \in {"Low", "Medium", "High"}
  /\ b.payment_terms \in KnownPaymentTerms
  /\ NotesNonEmpty(b.service_notes)

\* the feature vector and raw estimator answers of the last predict call,
\* recomputed from the predictor the call left behind
LastX == prepare_features_for_prediction(predictor, lastCall.input)
LastRaw(model) == EstimatorPredict(model, LastX)
LastEstimatorRaised ==
  \/ LastRaw(predictor.discount_model) = Raise
  \/ LastRaw(predictor.tax_model) = Raise
  \/ LastRaw(predictor.docs_model) \in {Raise, NaN}

\* C1: predict never raises to its caller and always returns a bundle with
\* all five fields, whatever the artifact file, the dataset file, feature
\* preparation and the estimators do.
C1_PredictNeverRaises ==
  lastCall.op = "predict" => (~lastCall.raised /\ Complete(lastCall.ret))

\* a loaded artifact whose estimator raised, answered with the defaults
C1_Witness ==
  /\ lastCall.op = "predict"
  /\ predictor.models_loaded
  /\ LastX.ok
  /\ LastEstimatorRaised
  /\ ~lastCall.raised
  /\ lastCall.path = "default"

\* C2: every bundle predict returns, on the inference path and on the
\* default path, has discount in [0,20], tax_rate in [0,25], a documentation
\* level in {Low, Medium, High}, one of the four payment terms and non-empty
\* service notes.
C2_BundleInRange ==
  (lastCall.op = "predict" /\ ~lastCall.raised) => InRange(lastCall.ret)

\* the discount estimator answered above 20 (or NaN) for an unknown project
\* type and the bundle carries the clamped 20
C2_Witness ==
  /\ lastCall.op = "predict"
  /\ lastCall.path = "inference"
  /\ lastCall.input.project_type \notin project_types
  /\ LastRaw(predictor.discount_model) > Units(20, 0)
  /\ lastCall.ret.discount = Units(20, 0)

\* C3: with neither an artifact file nor a dataset file, predict on a
\* predictor without artifact returns the rule-based default bundle, complete
\* and in range, and the predictor still has no artifact.
C3_ColdStart ==
  (/\ lastCall.op = "predict"
   /\ ~lastCall.was_loaded
   /\ modelFile.state = "absent"
   /\ datasetFile.state = "absent")
  => (/\ ~lastCall.raised
      /\ lastCall.path = "default"
      /\ Complete(lastCall.ret)
      /\ InRange(lastCall.ret)
      /\ lastCall.ret.discount \in {Units(0, 0), Units(2, 0), Units(5, 0), Units(10, 0)}
      /\ lastCall.ret.tax_rate = Units(8, 4)
      /\ ~predictor.models_loaded)

C3_Witness ==
  /\ lastCall.op = "predict"
  /\ ~lastCall.was_loaded
  /\ modelFile.state = "absent"
  /\ datasetFile.state = "absent"
  /\ predictor = NewPredictor
  /\ lastCall.path = "default"

\* C4: a predict call that repeats the previous call's seven inputs, with the
\* files and the predictor untouched in between, returns the same bundle -
\* also when the previous call was the one that loaded the artifact.
C4_Idempotent ==
  (lastCall.op = "predict" /\ prevSame.valid)
  => (~lastCall.raised /\ lastCall.ret = prevSame.ret)

\* the first of the two calls loaded the artifact, the second used it
C4_Witness ==
  /\ lastCall.op = "predict"
  /\ prevSame.valid
  /\ ~prevSame.was_loaded
  /\ lastCall.was_loaded
  /\ lastCall.path = "inference"

\* C5: a categorical value the loaded encoder table has not seen, or an
\* attribute without encoder, is encoded as 0; preparation does not fail and,
\* the estimators answering, predict returns a complete inference bundle.
Unseen(i) ==
  LET col == categorical_cols[i] IN
  \/ col \notin DOMAIN predictor.encoders
  \/ ~predictor.encoders[col].fitted
  \/ lastCall.input[col] \notin Range(predictor.encoders[col].classes)

Artifact(p) ==
  [discount_model |-> p.discount_model, tax_model |-> p.tax_model,
   docs_model |-> p.docs_model, encoders |-> p.encoders]

\* the artifact is the product of train_models on the dataset the predictor
\* holds
IsTrained(p) ==
  /\ p.models_loaded
  /\ p.dataset_loaded
  /\ Range(categorical_cols) \subseteq p.dataset.columns
  /\ p.discount_model = FittedModel(TrainId(p.dataset, 1))
  /\ p.tax_model = FittedModel(TrainId(p.dataset, 2))
  /\ p.docs_model = FittedModel(TrainId(p.dataset, 3))
  /\ p.encoders = [c \in Range(categorical_cols) |-> FitLabelEncoder(p.dataset.values[c])]

\* load_models on the current files, in this predictor and in a fresh one
ReloadedHere == load_models(predictor, modelFile, datasetFile)
ReloadedFresh == load_models(NewPredictor, modelFile, datasetFile)

\* C6: after a successful save_models, load_models - in the same or in a
\* fresh predictor - succeeds from the file and yields the same three
\* estimators and encoder table, and predict gives the same bundle for every
\* input as with the in-memory artifact.
C6_RoundTrip ==
  (lastCall.op = "save_models" /\ lastCall.ok)
  => (/\ modelFile.state = "dict"
      /\ ReloadedHere.ret /\ ReloadedFresh.ret
      /\ Artifact(ReloadedHere.self) = Artifact(predictor)
      /\ Artifact(ReloadedFresh.self) = Artifact(predictor)
      /\ \A in \in Inputs :
           /\ PredictLoaded(ReloadedFresh.self, in).ret = PredictLoaded(predictor, in).ret
           /\ PredictLoaded(ReloadedFresh.self, in).path = PredictLoaded(predictor, in).path)

\* a trained artifact was saved, and some input gets an inference bundle
C6_Witness ==
  /\ lastCall.op = "save_models"
  /\ lastCall.ok
  /\ IsTrained(predictor)
  /\ \E in \in Inputs : PredictLoaded(predictor, in).path = "inference"

\* the two examples of the default path
Example1 ==
  input_dict("Software Development", "Finance", "US", "Fixed Price", 25000, <<150>>, 2)
Example2 ==
  input_dict("Software Development", "Finance", "US", "Time & Materials", 3000, <<20>>, 2)

\* C7: with no artifact available predict returns tax_rate 8.5 for every
\* country, discount 10.0 above 20000 and 0.0 up to 5000; (25000, 150 h,
\* Finance, Fixed Price) gives 10.0 / 8.5 / High / 50% Advance, 50% on
\* Completion and (3000, 20 h, Time & Materials) gives 0.0 / 8.5 / Low / Net 30.
C7_DefaultValues ==
  (lastCall.op = "predict" /\ ~predictor.models_loaded)
  => LET in == lastCall.input
         b == lastCall.ret
     IN /\ ~lastCall.raised
        /\ b.tax_rate = Units(8, 4)
        /\ (in.total_amount > 20000 => b.discount = Units(10, 0))
        /\ (in.total_amount <= 5000 => b.discount = Units(0, 0))
        /\ (in = Example1 =>
              /\ b.discount = Units(10, 0)
              /\ b.documentation_complexity = "High"
              /\ b.payment_terms = "50% Advance, 50% on Completion")
        /\ (in = Example2 =>
              /\ b.discount = Units(0, 0)
              /\ b.documentation_complexity = "Low"
              /\ b.payment_terms = "Net 30")

\* the first example was asked for a country other than US
C7_Witness ==
  /\ lastCall.op = "predict"
  /\ ~predictor.models_loaded
  /\ lastCall.input = [Example1 EXCEPT !.country = "DE"]
  /\ lastCall.ret.tax_rate = Units(8, 4)
  /\ lastCall.ret.discount = Units(10, 0)

\* the sums of the totals formula, by index
RECURSIVE SumTo(_, _, _)
SumTo(svcs, n, withRate) ==
  IF n = 0 THEN 0
  ELSE (IF withRate THEN svcs[n].hours * svcs[n].hourly_rate ELSE svcs[n].hours)
       + SumTo(svcs, n - 1, withRate)

\* C8: calculate_project_totals returns subtotal = sum(hours * rate),
\* discount_amount = subtotal * discount / 100, tax_amount = (subtotal -
\* discount_amount) * tax / 100, total = subtotal - discount_amount +
\* tax_amount and total_hours = sum(hours); (10 h, 150) and (5 h, 200) at
\* discount 10 and tax 8.5 give 2500, 250, 191.25 and 2441.25.
C8_TotalsFormula ==
  totals.called
  => LET r == totals.result
         n == Len(totals.services)
     IN /\ r.subtotal = Money(SumTo(totals.services, n, TRUE))
        /\ r.discount_amount = (r.subtotal \div 200) * totals.discount
        /\ r.tax_amount = ((r.subtotal - r.discount_amount) \div 200) * totals.tax_rate
        /\ r.total = r.subtotal - r.discount_amount + r.tax_amount
        /\ r.total_hours = SumTo(totals.services, n, FALSE)
        /\ ((/\ totals.services = <<Service(10, 150), Service(5, 200)>>
             /\ totals.discount = 20
             /\ totals.tax_rate = 17)
            => (/\ r.subtotal = Money(2500)
                /\ r.discount_amount = Money(250)
                /\ r.tax_amount = Money(191) + 10000
                /\ r.total = Money(2441) + 10000))

C8_Witness ==
  /\ totals.called
  /\ totals.services = <<Service(10, 150), Service(5, 200)>>
  /\ totals.discount = 20
  /\ totals.tax_rate = 17
  /\ totals.result.total = Money(2441) + 10000

\* C9: every column the trainer reads is a column the synthesizer writes, and
\* with the synthesizer's dataset file on disk train_models succeeds and a
\* cold predict returns an inference result.
IsSynthDataset(d) == d.state = "table" /\ d.columns = SynthColumns /\ d.nrows > 0

C9_SynthDatasetTrains ==
  /\ (lastCall.op = "train_models" /\ IsSynthDataset(datasetFile))
       => (/\ TrainerColumns \subseteq datasetFile.columns
           /\ lastCall.ok
           /\ predictor.models_loaded)
  /\ (/\ lastCall.op = "predict"
      /\ ~lastCall.was_loaded
      /\ modelFile.state = "absent"
      /\ IsSynthDataset(datasetFile)
      /\ lastCall.input.total_hours # <<>>
      /\ ~LastEstimatorRaised)
       => lastCall.path = "inference"

\* a dataset file train_models can train on
Trainable(d) ==
  /\ d.state = "table"
  /\ TrainerColumns \subseteq d.columns
  /\ d.nrows > 0

\* C10: train_models returns False, raises nothing and leaves models_loaded
\* as it was whenever the dataset file is absent, unreadable, empty or lacks
\* a column it reads; otherwise it returns True and models_loaded is set.
C10_TrainFailureSignal ==
  lastCall.op = "train_models"
  => (/\ ~lastCall.raised
      /\ lastCall.ok = Trainable(datasetFile)
      /\ (lastCall.ok => predictor.models_loaded)
      /\ (~lastCall.ok => predictor.models_loaded = lastCall.was_loaded))

\* training failed on a table that has every feature column but no rows or
\* no label column, on a predictor that had no artifact
C10_Witness ==
  /\ lastCall.op = "train_models"
  /\ ~lastCall.ok
  /\ ~lastCall.was_loaded
  /\ datasetFile.state = "table"
  /\ Range(feature_cols) \subseteq datasetFile.columns
  /\ ~predictor.models_loaded


\* an artifact file load_models can load
Loadable(f) ==
  /\ f.state = "dict"
  /\ {"discount_model", "tax_model", "docs_model"} \subseteq DOMAIN f.data

\* how many attempts of one kind a call made
CountSteps(log, name) == Cardinality({i \in 1..Len(log) : log[i].step = name})

\* C11: a predict call made without artifact makes exactly one load attempt,
\* first; a train attempt only if that load failed, and at most one; it takes
\* the default path without preparing features only if both failed; if
\* either succeeded it goes on to feature preparation and inference.
C11_FallbackChain ==
  (lastCall.op = "predict" /\ ~lastCall.was_loaded)
  => LET log == lastCall.log
         trained == CountSteps(log, "train") = 1
         bothFailed == ~log[1].ok /\ trained /\ ~log[2].ok
     IN /\ Len(log) >= 1
        /\ log[1].step = "load"
        /\ log[1].ok = Loadable(modelFile)
        /\ CountSteps(log, "load") = 1
        /\ CountSteps(log, "train") <= 1
        /\ trained = ~log[1].ok
        /\ (trained => (log[2].step = "train" /\ log[2].ok = Trainable(datasetFile)))
        /\ (bothFailed =>
              /\ CountSteps(log, "prepare") = 0
              /\ lastCall.path = "default"
              /\ ~predictor.models_loaded)
        /\ (~bothFailed =>
              /\ CountSteps(log, "prepare") = 1
              /\ log[Len(log)].step = "prepare"
              /\ predictor.models_loaded
              /\ ((log[Len(log)].ok /\ ~LastEstimatorRaised)
                    => lastCall.path = "inference"))

\* the load failed, the training succeeded and the call ended in inference
C11_Witness ==
  /\ lastCall.op = "predict"
  /\ ~lastCall.was_loaded
  /\ lastCall.log = <<Step("load", FALSE), Step("train", TRUE), Step("prepare", TRUE)>>
  /\ lastCall.path = "inference"

\* C12: a predict call on a predictor whose models_loaded is true leaves
\* models_loaded true, makes no load and no train attempt, and leaves the
\* three estimators and the encoder table as they were, whether it returns
\* an inference bundle or the defaults.
C12_ArtifactRetained ==
  [][(predictor.models_loaded /\ lastCall'.op = "predict")
     => (/\ predictor'.models_loaded
         /\ Artifact(predictor') = Artifact(predictor)
         /\ CountSteps(lastCall'.log, "load") = 0
         /\ CountSteps(lastCall'.log, "train") = 0
         /\ lastCall'.path \in {"inference", "default"})]_vars

\* a loaded predictor answered with the defaults while the artifact file on
\* disk was a different, loadable one, and kept its artifact
C12_Witness ==
  /\ lastCall.op = "predict"
  /\ lastCall.was_loaded
  /\ lastCall.path = "default"
  /\ lastCall.log = <<Step("prepare", FALSE)>>
  /\ predictor.models_loaded
  /\ IsTrained(predictor)
  /\ Loadable(modelFile)
  /\ Artifact(load_models(NewPredictor, modelFile, datasetFile).self) # Artifact(predictor)

\* C13: a load_models or train_models call that fails leaves the three
\* estimators and the encoder table of a previously loaded artifact as they
\* were; the artifact in memory is never a mixture of two sources.
C13_NoPartialUpdate ==
  [][(/\ predictor.models_loaded
      /\ lastCall'.op \in {"train_models", "load_models"}
      /\ ~lastCall'.ok)
     => Artifact(predictor') = Artifact(predictor)]_vars

\* the documentation level by amount with Medium starting above a threshold
DocTier(total_amount, medium) ==
  IF total_amount > 15000 THEN "High"
  ELSE IF total_amount > medium THEN "Medium"
  ELSE "Low"

DefaultPathCall ==
  /\ lastCall.op \in {"predict", "app_predict"}
  /\ lastCall.path = "default"

\* C14 as stated: on the default path of either predictor
\* documentation_complexity is High above 15000, Medium above 8000 up to
\* 15000 and Low up to 8000.
C14_SynthTiers ==
  DefaultPathCall
  => lastCall.ret.documentation_complexity = DocTier(lastCall.input.total_amount, 8000)

\* C14 amended: on the default path of either predictor
\* documentation_complexity is High above 15000, Medium above 5000 up to
\* 15000 and Low up to 5000.
C14_DefaultDocTiers ==
  DefaultPathCall
  => lastCall.ret.documentation_complexity = DocTier(lastCall.input.total_amount, 5000)

\* a default-path call of the trainer-side predictor at 8000, between the
\* two thresholds, that got Medium, as the app's predictor gives too
C14_Witness ==
  /\ lastCall.op = "predict"
  /\ lastCall.path = "default"
  /\ lastCall.input.total_amount = 8000
  /\ lastCall.ret.documentation_complexity = "Medium"
  /\ SimplePredict(appPredictor, lastCall.input).documentation_complexity = "Medium"

\* the flag the docs classifier gave for the last predict call
LastDocsFlag == PyInt(LastRaw(predictor.docs_model))

\* C15: a bundle from the inference path has documentation_complexity High
\* exactly when the docs classifier's flag is set and Medium otherwise; Low
\* comes from the default path only, whatever the amount and category.
C15_InferenceDocLevels ==
  lastCall.op = "predict"
  => (/\ lastCall.path = "inference"
          => (/\ lastCall.ret.documentation_complexity \in {"Medium", "High"}
              /\ lastCall.ret.documentation_complexity = "High" <=> LastDocsFlag # 0)
      /\ lastCall.ret.documentation_complexity = "Low" => lastCall.path = "default")

\* an inference bundle for an amount the default rule would call Low, with
\* the flag clear and Medium returned
C15_Witness ==
  /\ lastCall.op = "predict"
  /\ lastCall.path = "inference"
  /\ lastCall.input.total_amount <= 5000
  /\ LastDocsFlag = 0
  /\ lastCall.ret.documentation_complexity = "Medium"

\* the fields of the input record that the last call's record lacks
MissingFields == InputFields \ DOMAIN lastCall.input

\* the fields prepare_features_for_prediction reads with input_dict[...]
LookedUpFields == {"total_amount", "total_hours", "client_industry"}

PredictFellBack ==
  (lastCall.op = "predict" /\ ~LastX.ok)
  => (/\ lastCall.path = "default"
      /\ lastCall.ret = get_smart_defaults(lastCall.input.service_category,
                                           lastCall.input.client_industry,
                                           lastCall.input.project_type,
                                           lastCall.input.total_amount))

\* C16 as stated: feature preparation returns no feature vector for a
\* record in which any field of the feature vector is missing, and predict
\* returns the default bundle when preparation fails.
C16_MissingFieldFails ==
  /\ (lastCall.op = "prepare" /\ MissingFields # {}) => ~lastCall.ok
  /\ PredictFellBack

\* C16 amended: feature preparation returns no feature vector exactly when
\* total_amount, total_hours or client_industry is missing or total_hours
\* is not a number; a missing num_services, service_category, country or
\* project_type is filled with 0 in the returned vector; predict returns
\* the default bundle when preparation fails.
C16_PreparationFailure ==
  /\ lastCall.op = "prepare"
     => (/\ lastCall.ok <=> (/\ MissingFields \cap LookedUpFields = {}
                              /\ lastCall.input.total_hours # <<>>)
         /\ lastCall.ok
            => (/\ LastX.columns = required_cols
                /\ \A i \in 1..Len(required_cols) :
                     required_cols[i] \in MissingFields => LastX.values[i] = 0))
  /\ PredictFellBack

\* a record without num_services got a feature vector with 0 in its place
C16_Witness ==
  /\ lastCall.op = "prepare"
  /\ MissingFields = {"num_services"}
  /\ lastCall.ok
  /\ LastX.values[7] = 0
  /\ predictor.models_loaded

\* predict fell back to the defaults because preparation failed, with an
\* artifact loaded
C16_FallbackWitness ==
  /\ lastCall.op = "predict"
  /\ predictor.models_loaded
  /\ ~LastX.ok
  /\ lastCall.path = "default"

ArtifactFields == {"discount_model", "tax_model", "docs_model", "encoders"}
EstimatorFields == {"discount_model", "tax_model", "docs_model"}

\* the last call was load_models on a pickled dict lacking the fields in
\* some non-empty subset of fs
LoadedFileLacking(fs) ==
  /\ lastCall.op = "load_models"
  /\ modelFile.state = "dict"
  /\ (fs \ DOMAIN modelFile.data) # {}

LoadAttemptFailed ==
  /\ lastCall.log # <<>>
  /\ lastCall.log[1] = Step("load", FALSE)
  /\ CountSteps(lastCall.log, "train") = 1
  /\ lastCall.ok = lastCall.log[2].ok

\* C17 as stated: load_models on an artifact file lacking any of
\* discount_model, tax_model, docs_model, encoders is a load failure and
\* goes on to the train attempt.
C17_FourFieldsRequired ==
  LoadedFileLacking(ArtifactFields) => LoadAttemptFailed

\* C17 amended: load_models on an artifact file lacking any of
\* discount_model, tax_model, docs_model is a load failure and goes on to
\* the train attempt; a file lacking only encoders loads, with the file's
\* estimators and an empty encoder table, and no train attempt is made.
C17_EstimatorFieldsRequired ==
  /\ LoadedFileLacking(EstimatorFields) => LoadAttemptFailed
  /\ (LoadedFileLacking({"encoders"}) /\ EstimatorFields \subseteq DOMAIN modelFile.data)
     => (/\ lastCall.ok
         /\ lastCall.log = <<Step("load", TRUE)>>
         /\ predictor.models_loaded
         /\ predictor.encoders = NoData
         /\ \A f \in EstimatorFields : Artifact(predictor)[f] = modelFile.data[f])

\* load_models succeeded on a file without encoders, over a predictor that
\* held a trained artifact before
C17_Witness ==
  /\ LoadedFileLacking({"encoders"})
  /\ lastCall.ok
  /\ lastCall.was_loaded
  /\ predictor.dataset_loaded
  /\ predictor.encoders = NoData

\* the value the last call's feature vector has in a column
LastFeature(col) == LastX.values[IndexOf(feature_cols, col)]

\* C18: the feature vector predict builds has the ten columns of the
\* matrix the estimators are fitted on, in the same order, with
\* amount_per_hour = total_amount / max(total_hours, 1), is_large_project =
\* (total_amount > 20000) and is_enterprise_client = (client_industry in
\* {Finance, Healthcare}).
C18_FeatureOrder ==
  (lastCall.op = "predict" /\ LastX.ok)
  => LET in == lastCall.input
         hours == in.total_hours[1]
     IN /\ LastX.columns = feature_cols
        /\ Len(LastX.values) = 10
        /\ Len(feature_cols) = 10
        /\ SubSeq(LastX.columns, 1, 4) = categorical_cols
        /\ LastFeature("total_amount") = in.total_amount
        /\ LastFeature("total_hours") = hours
        /\ LastFeature("num_services") = in.num_services
        /\ LastFeature("amount_per_hour")
             = <<in.total_amount, IF hours >= 1 THEN hours ELSE 1>>
        /\ LastFeature("is_large_project") = 1 <=> in.total_amount > 20000
        /\ LastFeature("is_large_project") \in {0, 1}
        /\ LastFeature("is_enterprise_client") = 1
             <=> in.client_industry \in {"Finance", "Healthcare"}
        /\ LastFeature("is_enterprise_client") \in {0, 1}

\* estimators fitted by train_models answered a request with total_hours 0
C18_Witness ==
  /\ lastCall.op = "predict"
  /\ IsTrained(predictor)
  /\ LastX.ok
  /\ lastCall.path = "inference"
  /\ lastCall.input.total_hours = <<0>>
  /\ LastFeature("amount_per_hour") = <<12000, 1>>
  /\ LastFeature("is_enterprise_client") = 1

\* the discount the default rule of the last call's predictor gives for in
VariantDiscount(in) ==
  IF lastCall.op = "predict"
  THEN get_smart_defaults(in.service_category, in.client_industry,
                          in.project_type, in.total_amount).discount
  ELSE SimplePredict(appPredictor, in).discount

\* C19: in both default variants the discount does not decrease as
\* total_amount grows, is 0 for every total_amount up to 5000, and depends
\* on no input other than total_amount.
C19_DefaultDiscountMonotone ==
  DefaultPathCall
  => LET in == lastCall.input
         d == lastCall.ret.discount
     IN /\ d = VariantDiscount(in)
        /\ in.total_amount <= 5000 => d = 0
        /\ \A in2 \in DefaultInputs :
             /\ in.total_amount <= in2.total_amount => d <= VariantDiscount(in2)
             /\ in2.total_amount <= in.total_amount => VariantDiscount(in2) <= d
             /\ in2.total_amount = in.total_amount => VariantDiscount(in2) = d
        /\ lastCall.op = "app_predict"
           => \A b \in BOOLEAN : SimplePredict([models_loaded |-> b], in).discount = d

\* the app's predictor, with an artifact file loaded, gave its middle tier
\* just above 5000, where the trainer-side default gives a different value
C19_Witness ==
  /\ lastCall.op = "app_predict"
  /\ appPredictor.models_loaded
  /\ lastCall.input.total_amount = 5001
  /\ lastCall.ret.discount = Units(3, 0)
  /\ DefaultDiscount(5001) = Units(2, 0)
  /\ \E in2 \in DefaultInputs : in2.total_amount = 5000 /\ VariantDiscount(in2) = 0

\* C20: obtaining and calling generate_it_invoice_data(1000), as the app's
\* "Create Sample Dataset" button and the trainer's main script do, leaves
\* the dataset file as it was, and the table returned has 1000 records.
C20_GenerateHasNoSideEffect ==
  [][lastCall'.op \in {"create_sample_dataset", "trainer_main"}
     => (/\ datasetFile' = datasetFile
         /\ lastCall'.nrows \in {0, 1000})]_vars

\* C21: for each of the four project types, the payment_terms predict
\* returns, on the inference path and on the default path, is the
\* payment_terms the synthesizer writes into a record of that project type.
C21_SharedPaymentLookup ==
  (/\ lastCall.op = "predict"
   /\ IsSynthDataset(datasetFile)
   /\ lastCall.input.project_type \in project_types)
  => lastCall.ret.payment_terms = SynthPaymentTerms(lastCall.input.project_type)

\* the bundle the app's predictor returns for in, its load_models having
\* been run on artifact file f
AppBundleAfterLoad(f, in) == SimplePredict(SimpleLoadModels(NewSimplePredictor, f).self, in)

\* C22: the app's predictor makes use of the artifact: once its
\* load_models has succeeded, there is a request for which predict returns
\* a bundle other than the one it returns for that request after a failed
\* load.
C22_AppUsesArtifact ==
  (lastCall.op = "app_init" /\ lastCall.ok)
  => \E in \in DefaultInputs :
       \/ SimplePredict(appPredictor, in) # AppBundleAfterLoad(AbsentModelFile, in)
       \/ \E f \in ModelFileChoices :
            AppBundleAfterLoad(f, in) # AppBundleAfterLoad(AbsentModelFile, in)

\* the last call was a predict that returned the defaults because its load
\* and its train attempt both failed
ColdFailure ==
  /\ lastCall.op = "predict"
  /\ lastCall.path = "default"
  /\ lastCall.log = <<Step("load", FALSE), Step("train", FALSE)>>

\* a predict call follows a ColdFailure, an artifact file or a dataset to
\* train on being there now
PredictAfterFailure ==
  /\ ColdFailure
  /\ Loadable(modelFile) \/ Trainable(datasetFile)
  /\ lastCall'.op = "predict"
  /\ lastCall' # lastCall

\* the features and estimator answers of the call being made
NextX == prepare_features_for_prediction(predictor', lastCall'.input)
NextEstimatorRaised ==
  \/ EstimatorPredict(predictor'.discount_model, NextX) = Raise
  \/ EstimatorPredict(predictor'.tax_model, NextX) = Raise
  \/ EstimatorPredict(predictor'.docs_model, NextX) \in {Raise, NaN}

\* C23 as stated: after a predict that returned the defaults because load
\* and train both failed the predictor has no artifact, and a later predict
\* call made when a valid artifact file or a trainable dataset exists loads
\* or trains, has the artifact afterwards and returns the inference result.
C23_NotLatchedInference ==
  [][/\ ColdFailure => ~predictor.models_loaded
     /\ PredictAfterFailure
        => (/\ predictor'.models_loaded
            /\ lastCall'.path = "inference")]_vars

\* C23 amended: as stated, except that the later call returns the inference
\* result when feature preparation succeeds and no estimator raises on the
\* request, and the defaults otherwise.
C23_NotLatched ==
  [][/\ ColdFailure => ~predictor.models_loaded
     /\ PredictAfterFailure
        => (/\ predictor'.models_loaded
            /\ lastCall'.log[1].ok = Loadable(modelFile)
            /\ ~Loadable(modelFile) => lastCall'.log[2] = Step("train", TRUE)
            /\ lastCall'.path = "inference" <=> (NextX.ok /\ ~NextEstimatorRaised)
            /\ lastCall'.path \in {"inference", "default"})]_vars

\* the same request was answered with the defaults by a call whose load and
\* train failed and then, a dataset having appeared, by a call that trained
\* and returned the inference result
C23_Witness ==
  /\ lastCall.op = "predict"
  /\ ~lastCall.was_loaded
  /\ prevSame.valid
  /\ ~prevSame.was_loaded
  /\ prevSame.ret = get_smart_defaults(lastCall.input.service_category,
                                       lastCall.input.client_industry,
                                       lastCall.input.project_type,
                                       lastCall.input.total_amount)
  /\ lastCall.log = <<Step("load", FALSE), Step("train", TRUE), Step("prepare", TRUE)>>
  /\ lastCall.path = "inference"
  /\ IsTrained(predictor)

\* C24: save_models called without an artifact trains first (exactly one
\* train attempt, none when the artifact is there); when that training fails
\* it returns False and the artifact file is unchanged; the file is written
\* only when the predictor has an artifact; and when it returns True the file
\* is a dict of exactly discount_model, tax_model, docs_model and encoders
\* holding the predictor's current estimators and encoders.
C24_SaveOnlyWithArtifact ==
  [][lastCall'.op = "save_models"
     => /\ CountSteps(lastCall'.log, "train") = (IF predictor.models_loaded THEN 0 ELSE 1)
        /\ (~predictor.models_loaded /\ ~Trainable(datasetFile))
           => (/\ ~lastCall'.ok
               /\ lastCall'.log = <<Step("train", FALSE)>>
               /\ modelFile' = modelFile)
        /\ modelFile' # modelFile => predictor'.models_loaded
        /\ lastCall'.ok
           => (/\ predictor'.models_loaded
               /\ modelFile'.state = "dict"
               /\ DOMAIN modelFile'.data = ArtifactFields
               /\ modelFile'.data["discount_model"] = predictor'.discount_model
               /\ modelFile'.data["tax_model"] = predictor'.tax_model
               /\ modelFile'.data["docs_model"] = predictor'.docs_model
               /\ modelFile'.data["encoders"] = predictor'.encoders)]_vars

\* save_models was called without an artifact, its training failed, it
\* returned False and the artifact file that was on disk is still there
C24_Witness ==
  /\ lastCall.op = "save_models"
  /\ ~lastCall.was_loaded
  /\ ~lastCall.ok
  /\ lastCall.log = <<Step("train", FALSE)>>
  /\ ~predictor.models_loaded
  /\ modelFile.state = "dict"

====
